---- MODULE Spec2Model ----
(***************************************************************************)
(* Model of src/keywordtree.py: the KeywordTree Aho-Corasick automaton.    *)
(* add and search_all are atomic calls; finalize is executed statement by  *)
(* statement (worklist loop of search_lss_for_children, suffix-link walk   *)
(* and recursion of search_lss) so that its intermediate states are        *)
(* visible.  The program is single threaded: no call starts while finalize *)
(* is running.                                                             *)
(***************************************************************************)
EXTENDS Integers, Sequences, FiniteSets, TLC

VARIABLES kt,      \* the KeywordTree object and the State objects it owns
          fin,     \* activation record of a running finalize() call
          last,    \* the last call made on the tree and its outcome
          added,   \* history: arguments of the add calls that did not raise
          returns  \* history: number of finalize calls that returned normally

vars == <<kt, fin, last, added, returns>>

\* ---------------------------------------------------------------- bounds
MaxKeywordLen == 3
MaxAdds == 2
MaxTextLen == 2

\* ---------------------------------------------------------------- values
None == -1
NoKeyword == <<"None">>
Zero == 0

Chars == {"a", "b", "A"}

Lower(c) == IF c = "A" THEN "a" ELSE IF c = "B" THEN "b" ELSE c

LowerStr(s) == [i \in 1..Len(s) |-> Lower(s[i])]

Words(S, n) == UNION {[1..k -> S] : k \in 0..n}

\* the words keywords are taken from: the empty keyword, a keyword and its
\* capitalised spellings, keywords that are prefixes and suffixes of each
\* other, and chains of border overlaps
Vocabulary ==
    {<<>>, <<"a">>, <<"b">>, <<"A">>,
     <<"a", "b">>, <<"b", "a">>, <<"b", "b">>, <<"A", "b">>,
     <<"b", "a", "b">>,
     <<"a", "b", "a", "b">>}

\* arguments of add
Keywords == {w \in Vocabulary : Len(w) <= MaxKeywordLen}

\* arguments of search_all
Texts == Words(Chars, MaxTextLen)

\* ------------------------------------------------------------ dictionaries
\* A dict is the sequence of its items in insertion order.
Has(d, c) == \E i \in 1..Len(d) : d[i].symbol = c

Get(d, c) == d[CHOOSE i \in 1..Len(d) : d[i].symbol = c].next

Put(d, c, n) == Append(d, [symbol |-> c, next |-> n])

\* ------------------------------------------------------------------ State
Ids(k) == 0..(k.counter - 1)

\* State(identifier, symbol, parent): a fresh node appended to the tree
NewState(k, id, sym, par) ==
    [k EXCEPT !.symbol = [n \in 0..id |-> IF n = id THEN sym ELSE k.symbol[n]],
              !.parent = [n \in 0..id |-> IF n = id THEN par ELSE k.parent[n]],
              !.success = [n \in 0..id |-> IF n = id THEN FALSE ELSE k.success[n]],
              !.matched_keyword =
                  [n \in 0..id |-> IF n = id THEN NoKeyword ELSE k.matched_keyword[n]],
              !.transitions = [n \in 0..id |-> IF n = id THEN <<>> ELSE k.transitions[n]],
              !.longest_strict_suffix =
                  [n \in 0..id |-> IF n = id THEN None ELSE k.longest_strict_suffix[n]]]

\* KeywordTree.__init__
NewTree(ci) ==
    [case_insensitive |-> ci,
     counter |-> 1,
     finalized |-> FALSE,
     symbol |-> [n \in {0} |-> "None"],
     parent |-> [n \in {0} |-> None],
     success |-> [n \in {0} |-> FALSE],
     matched_keyword |-> [n \in {0} |-> NoKeyword],
     transitions |-> [n \in {0} |-> <<>>],
     longest_strict_suffix |-> [n \in {0} |-> None]]

\* -------------------------------------------------------------------- add
\* the for loop of add: follow the edge for keyword[i] or create it;
\* yields the tree and the state the loop ends in
RECURSIVE AddWalk(_, _, _, _)
AddWalk(k, current_state, keyword, i) ==
    IF i > Len(keyword)
    THEN [tree |-> k, state |-> current_state]
    ELSE IF Has(k.transitions[current_state], keyword[i])
         THEN AddWalk(k, Get(k.transitions[current_state], keyword[i]), keyword, i + 1)
         ELSE LET id == k.counter
                  k1 == NewState(k, id, keyword[i], current_state)
                  k2 == [k1 EXCEPT !.counter = id + 1,
                                   !.transitions[current_state] = Put(@, keyword[i], id)]
              IN  AddWalk(k2, id, keyword, i + 1)

\* the keyword add and search_all match with: lower-cased when case_insensitive
Normalised(k, keyword) == IF k.case_insensitive THEN LowerStr(keyword) ELSE keyword

\* mutant: the lower-cased keyword is recorded
RecordedLower(original_keyword, keyword) == keyword

\* what add records in matched_keyword
Recorded(original_keyword, keyword) == original_keyword

\* mutant: only a state created by this add is marked as a keyword's end
AddOpMarksNewOnly(k, original_keyword) ==
    LET keyword == Normalised(k, original_keyword)
    IN  IF Len(keyword) <= 0
        THEN k
        ELSE LET w == AddWalk(k, Zero, keyword, 1)
             IN  IF w.tree.counter = k.counter
                 THEN w.tree
                 ELSE [w.tree EXCEPT !.success[w.state] = TRUE,
                                     !.matched_keyword[w.state] =
                                         Recorded(original_keyword, keyword)]

\* add(keyword) on a tree that is not finalized
AddOp(k, original_keyword) ==
    LET keyword == Normalised(k, original_keyword)
    IN  IF Len(keyword) <= 0
        THEN k
        ELSE LET w == AddWalk(k, Zero, keyword, 1)
             IN  [w.tree EXCEPT !.success[w.state] = TRUE,
                                !.matched_keyword[w.state] =
                                    Recorded(original_keyword, keyword)]

\* ------------------------------------------------------------- search_all
\* mutant: no second look-up in the root's table
NextStateNoRoot(k, current_state, symbol) ==
    IF Has(k.transitions[current_state], symbol)
    THEN Get(k.transitions[current_state], symbol)
    ELSE Zero

\* lines 75-76: the transition of the current state, else the root's, else
\* the root
NextState(k, current_state, symbol) ==
    IF Has(k.transitions[current_state], symbol)
    THEN Get(k.transitions[current_state], symbol)
    ELSE IF Has(k.transitions[Zero], symbol)
         THEN Get(k.transitions[Zero], symbol)
         ELSE Zero

\* mutant: the chain is reported from the root end
RECURSIVE EmitShallowFirst(_, _)
EmitShallowFirst(k, state) ==
    IF state = Zero
    THEN <<>>
    ELSE EmitShallowFirst(k, k.longest_strict_suffix[state])
         \o (IF k.success[state] THEN <<k.matched_keyword[state]>> ELSE <<>>)

\* lines 77-82: the keywords of the successful states on the suffix chain
RECURSIVE Emit(_, _)
Emit(k, state) ==
    IF state = Zero
    THEN <<>>
    ELSE (IF k.success[state] THEN <<k.matched_keyword[state]>> ELSE <<>>)
         \o Emit(k, k.longest_strict_suffix[state])

\* the for loop of search_all from position idx on; ret is the list built
\* so far and at the (history) position each entry was appended at
RECURSIVE Scan(_, _, _, _, _)
Scan(k, text, idx, current_state, out) ==
    IF idx > Len(text)
    THEN out
    ELSE LET nxt == NextState(k, current_state, text[idx])
             e == Emit(k, nxt)
         IN  Scan(k, text, idx + 1, nxt,
                  [ret |-> out.ret \o e,
                   at |-> out.at \o [j \in 1..Len(e) |-> idx]])

\* search_all(text) on a finalized tree
SearchAll(k, text) ==
    Scan(k, Normalised(k, text), 1, Zero, [ret |-> <<>>, at |-> <<>>])

\* --------------------------------------------------------------- finalize
Idle == [pc |-> "idle", processed |-> {}, to_process |-> <<>>, state |-> None,
         i |-> 0, stack |-> <<>>, assigns |-> <<>>]

Top(f) == f.stack[Len(f.stack)]

SetTop(f, fr) == [f EXCEPT !.stack[Len(f.stack)] = fr]

\* state.longest_strict_suffix = value, recorded in the history of assignments
\* (by: "finalize", or the caller of the search_lss that assigns)
Assign(m, state, value, by) ==
    [kt |-> [m.kt EXCEPT !.longest_strict_suffix[state] = value],
     fin |-> [m.fin EXCEPT !.assigns =
                  Append(@, [state |-> state, value |-> value, by |-> by])]]

\* entry of search_lss(state), lines 108-110
Call(m, state, ret) ==
    LET parent == m.kt.parent[state]
    IN  IF parent = None
        THEN [m EXCEPT !.fin.pc = "AttributeError"]
        ELSE [m EXCEPT !.fin.pc = "lss",
                       !.fin.stack = Append(@, [state |-> state,
                                                traversed |->
                                                    m.kt.longest_strict_suffix[parent],
                                                pc |-> "walk",
                                                ret |-> ret])]

\* mutant: the root's link is left unset
FinalizeEnterNoRootLink(m) ==
    [m EXCEPT !.fin.pc = "while",
              !.fin.processed = {},
              !.fin.to_process = <<Zero>>,
              !.fin.stack = <<>>]

\* finalize() on a tree that is not finalized, lines 92-93 and 97-98
FinalizeEnter(m) ==
    LET m1 == Assign(m, Zero, Zero, "finalize")
    IN  [m1 EXCEPT !.fin.pc = "while",
                   !.fin.processed = {},
                   !.fin.to_process = <<Zero>>,
                   !.fin.stack = <<>>]

\* lines 99-101, and line 94 when the worklist is empty
WhileStep(m) ==
    LET f == m.fin
    IN  IF f.to_process = <<>>
        THEN [m EXCEPT !.kt.finalized = TRUE, !.fin.pc = "idle", !.fin.state = None,
                       !.fin.i = 0]
        ELSE LET state == f.to_process[Len(f.to_process)]
             IN  [m EXCEPT !.fin.to_process = SubSeq(f.to_process, 1, Len(f.to_process) - 1),
                           !.fin.processed = @ \cup {state},
                           !.fin.state = state,
                           !.fin.i = 1,
                           !.fin.pc = "for"]

\* lines 102-104: the next child of the popped state
ForStep(m) ==
    LET f == m.fin
        d == m.kt.transitions[f.state]
    IN  IF f.i > Len(d)
        THEN [m EXCEPT !.fin.pc = "while"]
        ELSE IF d[f.i].next \notin f.processed
             THEN Call(m, d[f.i].next, "for")
             ELSE [m EXCEPT !.fin.i = @ + 1]

\* return of search_lss: line 105 in the worklist loop, or back in the
\* caller's line 127
Return(m) ==
    LET f == m.fin
        fr == Top(f)
        rest == SubSeq(f.stack, 1, Len(f.stack) - 1)
    IN  IF fr.ret = "for"
        THEN [m EXCEPT !.fin.stack = rest,
                       !.fin.to_process = Append(@, fr.state),
                       !.fin.i = @ + 1,
                       !.fin.pc = "for"]
        ELSE [m EXCEPT !.fin.stack = rest]

\* mutant: the walk gives up after the first state instead of following the chain
WalkStepNoAdvance(m) ==
    LET fr == Top(m.fin)
        state == fr.state
        traversed == fr.traversed
        symbol == m.kt.symbol[state]
    IN  IF traversed = None
        THEN [m EXCEPT !.fin.pc = "AttributeError"]
        ELSE IF Has(m.kt.transitions[traversed], symbol)
                /\ Get(m.kt.transitions[traversed], symbol) # state
             THEN LET m1 == Assign(m, state, Get(m.kt.transitions[traversed], symbol), fr.ret)
                  IN  [m1 EXCEPT !.fin = SetTop(m1.fin, [fr EXCEPT !.pc = "post"])]
             ELSE IF traversed = Zero
                  THEN LET m1 == Assign(m, state, Zero, fr.ret)
                       IN  [m1 EXCEPT !.fin = SetTop(m1.fin, [fr EXCEPT !.pc = "post"])]
                  ELSE LET m1 == Assign(m, state, Zero, fr.ret)
                       IN  [m1 EXCEPT !.fin = SetTop(m1.fin, [fr EXCEPT !.pc = "post"])]

\* mutant: the walk does not stop at the root
WalkStepNoRootStop(m) ==
    LET fr == Top(m.fin)
        state == fr.state
        traversed == fr.traversed
        symbol == m.kt.symbol[state]
    IN  IF traversed = None
        THEN [m EXCEPT !.fin.pc = "AttributeError"]
        ELSE IF Has(m.kt.transitions[traversed], symbol)
                /\ Get(m.kt.transitions[traversed], symbol) # state
             THEN LET m1 == Assign(m, state, Get(m.kt.transitions[traversed], symbol), fr.ret)
                  IN  [m1 EXCEPT !.fin = SetTop(m1.fin, [fr EXCEPT !.pc = "post"])]
             ELSE [m EXCEPT !.fin = SetTop(m.fin,
                      [fr EXCEPT !.traversed = m.kt.longest_strict_suffix[traversed]])]

\* lines 111-121: one iteration of the suffix-link walk
WalkStep(m) ==
    LET fr == Top(m.fin)
        state == fr.state
        traversed == fr.traversed
        symbol == m.kt.symbol[state]
    IN  IF traversed = None
        THEN [m EXCEPT !.fin.pc = "AttributeError"]
        ELSE IF Has(m.kt.transitions[traversed], symbol)
                /\ Get(m.kt.transitions[traversed], symbol) # state
             THEN LET m1 == Assign(m, state, Get(m.kt.transitions[traversed], symbol), fr.ret)
                  IN  [m1 EXCEPT !.fin = SetTop(m1.fin, [fr EXCEPT !.pc = "post"])]
             ELSE IF traversed = Zero
                  THEN LET m1 == Assign(m, state, Zero, fr.ret)
                       IN  [m1 EXCEPT !.fin = SetTop(m1.fin, [fr EXCEPT !.pc = "post"])]
                  ELSE [m EXCEPT !.fin = SetTop(m.fin,
                           [fr EXCEPT !.traversed = m.kt.longest_strict_suffix[traversed]])]

\* mutant: nothing is copied
NotMerged(d, from, j) == d

\* lines 127-129: copy the suffix's transitions the state does not have
RECURSIVE Merged(_, _, _)
Merged(d, from, j) ==
    IF j > Len(from)
    THEN d
    ELSE IF Has(d, from[j].symbol)
         THEN Merged(d, from, j + 1)
         ELSE Merged(Put(d, from[j].symbol, from[j].next), from, j + 1)

MergeStep(m) ==
    LET fr == Top(m.fin)
        suffix == m.kt.longest_strict_suffix[fr.state]
        m1 == [m EXCEPT !.kt.transitions[fr.state] =
                            Merged(@, m.kt.transitions[suffix], 1)]
    IN  Return(m1)

\* mutant: the suffix target is resolved again although its link is set
PostStepAlwaysRecurses(m) ==
    LET fr == Top(m.fin)
        suffix == m.kt.longest_strict_suffix[fr.state]
    IN  IF suffix = Zero
        THEN Return(m)
        ELSE Call([m EXCEPT !.fin = SetTop(m.fin, [fr EXCEPT !.pc = "merge"])],
                  suffix, "lss")

\* lines 122-126: after the link is set
PostStep(m) ==
    LET fr == Top(m.fin)
        suffix == m.kt.longest_strict_suffix[fr.state]
    IN  IF suffix = Zero
        THEN Return(m)
        ELSE IF m.kt.longest_strict_suffix[suffix] = None
             THEN Call([m EXCEPT !.fin = SetTop(m.fin, [fr EXCEPT !.pc = "merge"])],
                       suffix, "lss")
             ELSE MergeStep(m)

\* the statement finalize executes next
FinStep(m) ==
    CASE m.fin.pc = "while" -> WhileStep(m)
      [] m.fin.pc = "for" -> ForStep(m)
      [] m.fin.pc = "lss" /\ Top(m.fin).pc = "walk" -> WalkStep(m)
      [] m.fin.pc = "lss" /\ Top(m.fin).pc = "post" -> PostStep(m)
      [] m.fin.pc = "lss" /\ Top(m.fin).pc = "merge" -> MergeStep(m)

Running(f) == f.pc \in {"while", "for", "lss"}

\* finalize() run to its return or to the exception it raises
RECURSIVE Run(_)
Run(m) == IF Running(m.fin) THEN Run(FinStep(m)) ELSE m

\* ---------------------------------------------------------------- calls
Machine == [kt |-> kt, fin |-> fin]

Outcome(op, raised, text, out) ==
    [op |-> op, raised |-> raised, text |-> text, ret |-> out.ret, at |-> out.at]

Nothing == [ret |-> <<>>, at |-> <<>>]

\* mutant: add never checks the phase
AddNeverRaises(k) == FALSE

\* lines 37-39
AddRaises(k) == k.finalized

\* lines 66-68
SearchRaises(k) == ~k.finalized

\* lines 90-91
FinalizeRaises(k) == k.finalized

Init ==
    /\ kt \in {NewTree(ci) : ci \in BOOLEAN}
    /\ fin = Idle
    /\ last = Outcome("init", "None", <<>>, Nothing)
    /\ added = <<>>
    /\ returns = 0

\* add(keyword), accepted
Add(keyword) ==
    /\ ~Running(fin)
    /\ ~AddRaises(kt)
    /\ Len(added) < MaxAdds
    /\ kt' = AddOp(kt, keyword)
    /\ added' = Append(added, keyword)
    /\ last' = Outcome("add", "None", <<>>, Nothing)
    /\ UNCHANGED <<fin, returns>>

\* add(keyword) raising before it looks at the keyword
AddRejected ==
    /\ ~Running(fin)
    /\ AddRaises(kt)
    /\ last' = Outcome("add", "ValueError", <<>>, Nothing)
    /\ UNCHANGED <<kt, fin, added, returns>>

\* search_all(text), accepted
Search(text) ==
    /\ ~Running(fin)
    /\ ~SearchRaises(kt)
    /\ last' = Outcome("search_all", "None", text, SearchAll(kt, text))
    /\ UNCHANGED <<kt, fin, added, returns>>

\* search_all(text) raising before it looks at the text
SearchRejected ==
    /\ ~Running(fin)
    /\ SearchRaises(kt)
    /\ last' = Outcome("search_all", "ValueError", <<>>, Nothing)
    /\ UNCHANGED <<kt, fin, added, returns>>

\* finalize() entered: the root's link is set and the worklist started
Finalize ==
    /\ ~Running(fin)
    /\ ~FinalizeRaises(kt)
    /\ last' = Outcome("finalize", "None", <<>>, Nothing)
    /\ LET m == FinalizeEnter(Machine)
       IN  kt' = m.kt /\ fin' = m.fin
    /\ UNCHANGED <<added, returns>>

\* finalize() raising
FinalizeRejected ==
    /\ ~Running(fin)
    /\ FinalizeRaises(kt)
    /\ last' = Outcome("finalize", "ValueError", <<>>, Nothing)
    /\ UNCHANGED <<kt, fin, added, returns>>

\* one statement of the running finalize; an exception leaves the call, a
\* normal return is counted
Exec(m) ==
    /\ kt' = m.kt
    /\ fin' = m.fin
    /\ last' = IF m.fin.pc = "AttributeError"
               THEN Outcome("finalize", "AttributeError", <<>>, Nothing)
               ELSE last
    /\ returns' = IF m.fin.pc = "idle" THEN returns + 1 ELSE returns
    /\ UNCHANGED added

While == fin.pc = "while" /\ Exec(WhileStep(Machine))

For == fin.pc = "for" /\ Exec(ForStep(Machine))

Walk == fin.pc = "lss" /\ Top(fin).pc = "walk" /\ Exec(WalkStep(Machine))

Post == fin.pc = "lss" /\ Top(fin).pc = "post" /\ Exec(PostStep(Machine))

Merge == fin.pc = "lss" /\ Top(fin).pc = "merge" /\ Exec(MergeStep(Machine))

Next ==
    \/ \E keyword \in Keywords : Add(keyword)
    \/ AddRejected
    \/ \E text \in Texts : Search(text)
    \/ SearchRejected
    \/ Finalize
    \/ FinalizeRejected
    \/ While
    \/ For
    \/ Walk
    \/ Post
    \/ Merge

Spec == Init /\ [][Next]_vars

\* finalize, once called, keeps executing
FairSpec == Spec /\ WF_vars(While \/ For \/ Walk \/ Post \/ Merge)

\* ------------------------------------------------------------ properties
Searched == last.op = "search_all" /\ last.raised = "None"

\* the distinct non-empty keywords given to add
AddedSet == {added[j] : j \in 1..Len(added)} \ {<<>>}

\* w is a non-empty substring of t ending at position i
EndsAt(w, t, i) == Len(w) >= 1 /\ Len(w) <= i /\ SubSeq(t, i - Len(w) + 1, i) = w

\* how many times search_all reported w for position i
Reported(w, i) == Cardinality({j \in 1..Len(last.ret) : last.at[j] = i /\ last.ret[j] = w})

C2_PhaseErrors ==
    [][~Running(fin) =>
          /\ last'.op = "add" => (last'.raised = "ValueError" <=> returns > 0)
          /\ last'.op = "search_all" => (last'.raised = "ValueError" <=> returns = 0)
          /\ last'.op = "finalize" => (last'.raised = "ValueError" <=> returns > 0)
          /\ last'.raised \in {"None", "ValueError"}]_vars

\* an add refused after finalize returned
C2_Witness == last.op = "add" /\ last.raised = "ValueError" /\ returns = 1 /\ Len(added) = 1

\* w is a suffix of v
IsSuffix(w, v) == Len(w) <= Len(v) /\ SubSeq(v, Len(v) - Len(w) + 1, Len(v)) = w

\* C3: the entries of the result are in the order of the position they end
\* at, and of two entries ending at the same position the earlier one is
\* strictly longer and has the later one as a suffix.
C3_Order ==
    Searched =>
        \A p, q \in 1..Len(last.ret) :
            p < q =>
                /\ last.at[p] <= last.at[q]
                /\ last.at[p] = last.at[q] =>
                       /\ Len(last.ret[p]) > Len(last.ret[q])
                       /\ IsSuffix(Normalised(kt, last.ret[q]), Normalised(kt, last.ret[p]))

\* a result with a keyword at one position and two at a position further right
C3_Witness ==
    /\ Searched
    /\ \E p, q, r \in 1..Len(last.ret) :
           p < q /\ q < r /\ last.at[p] < last.at[q] /\ last.at[q] = last.at[r]

\* the argument of the last add call whose lower-cased form is f
LastOriginal(f) ==
    added[CHOOSE j \in 1..Len(added) :
              /\ LowerStr(added[j]) = f
              /\ \A h \in (j + 1)..Len(added) : LowerStr(added[h]) # f]

\* C4 as stated: in a case-insensitive tree every added keyword is reported,
\* in its original spelling, once per position where its lower-cased form
\* ends in the lower-cased text; in a case-sensitive tree a keyword is
\* reported only where it occurs in the same case.
C4_Original ==
    Searched =>
        IF kt.case_insensitive
        THEN \A w \in AddedSet : \A i \in 1..Len(last.text) :
                 EndsAt(LowerStr(w), LowerStr(last.text), i) => Reported(w, i) = 1
        ELSE \A j \in 1..Len(last.ret) : EndsAt(last.ret[j], last.text, last.at[j])

\* C4 amended: in a case-insensitive tree, of the added keywords with the
\* same lower-cased form only the one added last is reported: once, in its
\* original spelling, per position where the lower-cased form ends in the
\* lower-cased text, and nothing else is reported; in a case-sensitive tree
\* a keyword is reported only where it occurs in the same case.
C4_CaseInsensitive ==
    Searched =>
        IF kt.case_insensitive
        THEN /\ \A j \in 1..Len(last.ret) :
                    last.at[j] \in 1..Len(last.text) /\ last.ret[j] \in AddedSet
             /\ \A w \in AddedSet : \A i \in 1..Len(last.text) :
                    Reported(w, i) =
                        IF /\ EndsAt(LowerStr(w), LowerStr(last.text), i)
                           /\ w = LastOriginal(LowerStr(w))
                        THEN 1 ELSE 0
        ELSE \A j \in 1..Len(last.ret) : EndsAt(last.ret[j], last.text, last.at[j])

\* a case-insensitive search of an upper-case text that reported a keyword
\* added in another spelling, after two adds that differ only in case
C4_Witness ==
    /\ Searched /\ kt.case_insensitive
    /\ Len(added) = 2 /\ added[1] # added[2] /\ LowerStr(added[1]) = LowerStr(added[2])
    /\ Len(last.ret) >= 1
    /\ \E j \in 1..Len(last.ret) :
           ~EndsAt(last.ret[j], last.text, last.at[j])

\* the symbols on the way from the root to state n
RECURSIVE Path(_, _)
Path(k, n) == IF k.parent[n] = None THEN <<>> ELSE Append(Path(k, k.parent[n]), k.symbol[n])

Paths(k) == {Path(k, n) : n \in Ids(k)}

Drop(w, j) == SubSeq(w, j + 1, Len(w))

\* the longest suffix of w, w itself left out when strict, in the set P of paths
LongestSuffix(P, w, strict) ==
    LET from == IF strict THEN 1 ELSE 0
        j == CHOOSE j \in from..Len(w) :
                 /\ Drop(w, j) \in P
                 /\ \A h \in from..(j - 1) : Drop(w, h) \notin P
    IN  Drop(w, j)

Finalized == kt.finalized /\ ~Running(fin)

\* C6: once finalize has returned the root links to itself, and every other
\* state links to the state whose path is the longest proper suffix of its
\* own path among the paths of the trie.
C6_SuffixLinks ==
    Finalized =>
        LET P == Paths(kt)
        IN  /\ kt.longest_strict_suffix[Zero] = Zero
            /\ \A n \in Ids(kt) \ {Zero} :
                   /\ kt.longest_strict_suffix[n] \in Ids(kt)
                   /\ Path(kt, kt.longest_strict_suffix[n]) = LongestSuffix(P, Path(kt, n), TRUE)

\* a finalized tree with a link to a state two symbols deep and a link to the root
C6_Witness ==
    /\ Finalized
    /\ \E n \in Ids(kt) : Len(Path(kt, kt.longest_strict_suffix[n])) = 2
    /\ \E n \in Ids(kt) \ {Zero} : kt.longest_strict_suffix[n] = Zero

\* n has a trie child for c
DirectChild(k, n, c) == \E x \in Ids(k) : k.parent[x] = n /\ k.symbol[x] = c

\* every transition of n's suffix-link state that n has no trie child for is in n's table
MergedFrom(k, n) ==
    LET suffix == k.longest_strict_suffix[n]
    IN  \A e \in 1..Len(k.transitions[suffix]) :
            LET c == k.transitions[suffix][e].symbol
            IN  ~DirectChild(k, n, c) =>
                    /\ Has(k.transitions[n], c)
                    /\ Get(k.transitions[n], c) = Get(k.transitions[suffix], c)

\* C7 as stated: once finalize has returned, every state has every
\* transition of its suffix-link state, the root included, that it has no
\* trie child for.
C7_Original == Finalized => \A n \in Ids(kt) : MergedFrom(kt, n)

\* the symbols in the tables of the states on n's suffix chain below the root
RECURSIVE ChainSymbols(_, _)
ChainSymbols(k, n) ==
    IF n = Zero
    THEN {}
    ELSE {k.transitions[n][e].symbol : e \in 1..Len(k.transitions[n])}
         \cup ChainSymbols(k, k.longest_strict_suffix[n])

\* C7 amended: once finalize has returned, every state whose suffix-link
\* state is not the root has every transition of that state it has no trie
\* child for (nothing is copied from the root); a transition present in a
\* table leads to the state of the longest suffix of path + symbol, a table
\* holds a symbol as soon as a table on its suffix chain below the root
\* does, and the step of search_all, with its look-up in the root's table,
\* leads to that state for every symbol.
C7_Transitions ==
    Finalized =>
        LET P == Paths(kt)
        IN  \A n \in Ids(kt) :
                /\ kt.longest_strict_suffix[n] # Zero => MergedFrom(kt, n)
                /\ \A e \in 1..Len(kt.transitions[n]) :
                       Path(kt, kt.transitions[n][e].next) =
                           LongestSuffix(P, Append(Path(kt, n), kt.transitions[n][e].symbol), FALSE)
                /\ \A c \in ChainSymbols(kt, n) : Has(kt.transitions[n], c)
                /\ \A c \in Chars :
                       Path(kt, NextState(kt, n, c)) =
                           LongestSuffix(P, Append(Path(kt, n), c), FALSE)

\* a finalized tree with a transition copied from a suffix-link state below
\* the root and a state that lacks a transition of the root
C7_Witness ==
    /\ Finalized
    /\ \E n \in Ids(kt) : \E e \in 1..Len(kt.transitions[n]) :
           /\ kt.longest_strict_suffix[n] # Zero
           /\ kt.parent[kt.transitions[n][e].next] # n
    /\ \E n \in Ids(kt) \ {Zero} : \E e \in 1..Len(kt.transitions[Zero]) :
           ~Has(kt.transitions[n], kt.transitions[Zero][e].symbol)

\* how many times finalize has assigned n's link
Assignments(n) == Cardinality({j \in 1..Len(fin.assigns) : fin.assigns[j].state = n})

\* C8 as stated: finalize assigns the link of each state exactly once, and
\* no call changes a link after finalize has returned.
C8_Original ==
    /\ \A n \in Ids(kt) : Assignments(n) <= 1
    /\ Finalized => \A n \in Ids(kt) : Assignments(n) = 1

\* C8 amended: finalize assigns the link of each state at least once; the
\* recursion on a suffix target only ever makes the first assignment of a
\* link, while the worklist can run search_lss again for a state whose link
\* is set, which then assigns the value the link already has; so a link,
\* once set, never changes, during finalize or in any later call.
C8_LinksStable ==
    /\ [](Finalized => \A n \in Ids(kt) : Assignments(n) >= 1)
    /\ [](\A d \in 1..Len(fin.stack) :
              (fin.stack[d].ret = "lss" /\ fin.stack[d].pc = "walk")
                  => kt.longest_strict_suffix[fin.stack[d].state] = None)
    /\ [][\A n \in Ids(kt) :
              kt.longest_strict_suffix[n] # None
                  => kt'.longest_strict_suffix[n] = kt.longest_strict_suffix[n]]_vars

\* finalize has returned after assigning some link twice, and a search has
\* run since
C8_Witness ==
    /\ Finalized /\ Searched
    /\ \E n \in Ids(kt) : Assignments(n) = 2

\* C9: finalize never reads a link that is not set: every state the walk of
\* search_lss stands on is a state, and no call ends in the error of
\* dereferencing None.
C9_NoUnsetLink ==
    /\ fin.pc # "AttributeError"
    /\ last.raised # "AttributeError"
    /\ \A d \in 1..Len(fin.stack) : fin.stack[d].traversed \in Ids(kt)

\* search_lss running recursively for a suffix target, reading the link of
\* the target's parent, while the worklist holds states still to pop
C9_Witness ==
    /\ Len(fin.stack) = 2
    /\ Top(fin).pc = "walk"
    /\ Top(fin).traversed = kt.longest_strict_suffix[kt.parent[Top(fin).state]]
    /\ fin.to_process # <<>>

\* C10: a finalize call that has started returns, with the tree finalized.
C10_FinalizeReturns == Running(fin) ~> (Finalized /\ returns = 1)

\* finalize has returned although the worklist took some state twice and a
\* table holds a self-loop
C10_Witness ==
    /\ Finalized /\ returns = 1
    /\ \E n \in Ids(kt) :
           Cardinality({j \in 1..Len(fin.assigns) :
                            fin.assigns[j].state = n /\ fin.assigns[j].by = "for"}) = 2
    /\ \E n \in Ids(kt) : \E e \in 1..Len(kt.transitions[n]) : kt.transitions[n][e].next = n

\* the tree after add of seq[i], seq[i + 1], ...
RECURSIVE AddAll(_, _, _)
AddAll(k, seq, i) == IF i > Len(seq) THEN k ELSE AddAll(AddOp(k, seq[i]), seq, i + 1)

\* the finalized tree of another KeywordTree given the keywords seq in order
Built(ci, seq) == Run(FinalizeEnter([kt |-> AddAll(NewTree(ci), seq, 1), fin |-> Idle])).kt

\* the orders the added keywords can be given in
Orders == LET n == Len(added)
          IN  {[j \in 1..n |-> added[f[j]]] :
                   f \in {g \in [1..n -> 1..n] : \A x, y \in 1..n : x # y => g[x] # g[y]}}

\* a tree without its identifiers: each state as its path, with its terminal
\* flag, the path its link leads to and the paths its table leads to
Shape(k) ==
    {[path |-> Path(k, n),
      success |-> k.success[n],
      link |-> Path(k, k.longest_strict_suffix[n]),
      table |-> {<<k.transitions[n][e].symbol, Path(k, k.transitions[n][e].next)>> :
                     e \in 1..Len(k.transitions[n])}] : n \in Ids(k)}

JustFinalized == Finalized /\ last.op = "finalize" /\ last.raised = "None"

\* C5 as stated: a tree given the same keywords in another order has, once
\* finalized, the same shape and the same search result for every text.
C5_Original ==
    JustFinalized =>
        \A seq \in Orders :
            LET other == Built(kt.case_insensitive, seq)
            IN  /\ Shape(other) = Shape(kt)
                /\ \A text \in Texts : SearchAll(other, text).ret = SearchAll(kt, text).ret

\* two of the added keywords differ only in case
Collide == \E v, w \in AddedSet : v # w /\ Normalised(kt, v) = Normalised(kt, w)

\* C5 amended: a tree given the same keywords in another order has, once
\* finalized, the same shape, and for every text a search result that is
\* the same up to the case of the keywords reported; the results are equal
\* unless the tree is case-insensitive and two of the keywords differ only
\* in case (the one added last is reported).
C5_OrderIndependent ==
    JustFinalized =>
        \A seq \in Orders :
            LET other == Built(kt.case_insensitive, seq)
            IN  /\ Shape(other) = Shape(kt)
                /\ \A text \in Texts :
                       LET r == SearchAll(other, text).ret
                           q == SearchAll(kt, text).ret
                       IN  /\ [j \in 1..Len(r) |-> Normalised(kt, r[j])]
                                  = [j \in 1..Len(q) |-> Normalised(kt, q[j])]
                           /\ ~Collide => r = q

\* a finalized tree of two keywords where the other order numbers the
\* states differently, one state links below the root and a table holds a
\* copied transition
C5_Witness ==
    /\ JustFinalized
    /\ Len(added) = 2
    /\ Built(kt.case_insensitive, <<added[2], added[1]>>).symbol # kt.symbol
    /\ \E n \in Ids(kt) : kt.longest_strict_suffix[n] # Zero
    /\ \E n \in Ids(kt) : \E e \in 1..Len(kt.transitions[n]) :
           kt.parent[kt.transitions[n][e].next] # n

====
